---- MODULE Spec2Model ----
(***************************************************************************)
(* State-machine model of the SOTU prediction-market leaderboard           *)
(* (src/app.py, src/db.py, src/kalshi.py).                                 *)
(*                                                                         *)
(* Text values are sequences of lexemes: "sp" is one whitespace character, *)
(* "dash" one of the dash characters, "dig" one digit, "pts" the word      *)
(* point(s); every other lexeme is a run of characters of a label.         *)
(* Prices are kept in thousandths of a dollar (0.99 is 990).               *)
(***************************************************************************)
EXTENDS Integers, Sequences, FiniteSets, TLC

\* picks, market_snapshots, scores: the three tables of picks.db; picks_seq:
\* the AUTOINCREMENT counter of picks; title_to_ticker and uploaded: the
\* session's ticker map and the file in the uploader; notice: the st.error
\* message of the last rerun ("" when it showed none); clock: the wall clock.
VARIABLES picks, picks_seq, market_snapshots, scores, title_to_ticker, uploaded, notice, clock

vars == <<picks, picks_seq, market_snapshots, scores, title_to_ticker, uploaded, notice, clock>>

(* ------------------------------ bounds --------------------------------- *)
MaxPickId == 2
MaxSnapshots == 2
MaxTime == 1
MaxPrice == 1000

(* ------------------------- db.py: static tables ------------------------ *)
SAY_POINTS == (<<"Trillion">> :> 7)

MENTION_POINTS == (<<"Biden">> :> 8) @@ (<<"Marco / Rubio">> :> 31)

ALIASES == (<<"Marco Rubio">> :> <<"Marco / Rubio">>)

EVENT_TICKERS == [say |-> "KXTRUMPMENTION-26FEB28", mention |-> "KXTRUMPMENTION-26MAR02"]

Labels == <<"say", "mention">>

(* ------------------------- db.py: text helpers ------------------------- *)
RECURSIVE lstrip(_)
lstrip(s) == IF s # <<>> /\ Head(s) = "sp" THEN lstrip(Tail(s)) ELSE s

RECURSIVE rstrip(_)
rstrip(s) == IF s # <<>> /\ s[Len(s)] = "sp" THEN rstrip(SubSeq(s, 1, Len(s) - 1)) ELSE s

strip(s) == rstrip(lstrip(s))

\* The suffix s[i..] matches \s*[dash]\s*\d+\s*[Pp]oints?\s*$ ; st is the
\* position in the pattern: 0 before the dash, 1 after it, 2 inside the
\* digits, 3 after the digits, 4 after the word.
RECURSIVE SuffixMatches(_, _, _)
SuffixMatches(s, i, st) ==
    IF i > Len(s) THEN st = 4
    ELSE LET c == s[i] IN
         CASE st = 0 -> IF c = "sp" THEN SuffixMatches(s, i + 1, 0)
                        ELSE IF c = "dash" THEN SuffixMatches(s, i + 1, 1) ELSE FALSE
           [] st = 1 -> IF c = "sp" THEN SuffixMatches(s, i + 1, 1)
                        ELSE IF c = "dig" THEN SuffixMatches(s, i + 1, 2) ELSE FALSE
           [] st = 2 -> IF c = "dig" THEN SuffixMatches(s, i + 1, 2)
                        ELSE IF c = "sp" THEN SuffixMatches(s, i + 1, 3)
                        ELSE IF c = "pts" THEN SuffixMatches(s, i + 1, 4) ELSE FALSE
           [] st = 3 -> IF c = "sp" THEN SuffixMatches(s, i + 1, 3)
                        ELSE IF c = "pts" THEN SuffixMatches(s, i + 1, 4) ELSE FALSE
           [] OTHER  -> IF c = "sp" THEN SuffixMatches(s, i + 1, 4) ELSE FALSE

Min(S) == CHOOSE x \in S : \A y \in S : x <= y
Max(S) == CHOOSE x \in S : \A y \in S : x >= y

\* _POINTS_SUFFIX.sub("", raw).strip(): the leftmost match is removed.
strip_points_label(raw) ==
    LET starts == {i \in 1..Len(raw) : SuffixMatches(raw, i, 0)}
    IN  strip(IF starts = {} THEN raw ELSE SubSeq(raw, 1, Min(starts) - 1))

resolve_pick(pick) ==
    LET p == strip_points_label(pick)
    IN  IF p \in DOMAIN ALIASES THEN ALIASES[p] ELSE p

\* Mutant of validate_pick: the text as submitted is returned for the canonical name.
validate_pick_KeepsRaw(pick) ==
    LET canonical == resolve_pick(pick)
    IN  IF canonical \in DOMAIN SAY_POINTS
          THEN [category |-> "say", pts |-> SAY_POINTS[canonical], canonical |-> pick]
        ELSE IF canonical \in DOMAIN MENTION_POINTS
          THEN [category |-> "mention", pts |-> MENTION_POINTS[canonical], canonical |-> pick]
        ELSE [category |-> "none", pts |-> 0, canonical |-> pick]

\* category "none" stands for None
validate_pick(pick) ==
    LET canonical == resolve_pick(pick)
    IN  IF canonical \in DOMAIN SAY_POINTS
          THEN [category |-> "say", pts |-> SAY_POINTS[canonical], canonical |-> canonical]
        ELSE IF canonical \in DOMAIN MENTION_POINTS
          THEN [category |-> "mention", pts |-> MENTION_POINTS[canonical], canonical |-> canonical]
        ELSE [category |-> "none", pts |-> 0, canonical |-> pick]

(* --------------------------- kalshi.py --------------------------------- *)
\* A venue market object as returned by GET /markets.
Market(t, e, title, price, status, result) ==
    [ticker |-> t, event_ticker |-> e, yes_sub_title |-> title,
     last_price_dollars |-> price, status |-> status, result |-> result]

\* get_event_markets: resp is the sequence of page responses the venue gives
\* to the cursor loop; every page but the last carries a cursor. A page that
\* is not ok makes raise_for_status raise.
RECURSIVE get_event_markets(_)
get_event_markets(resp) ==
    IF resp = <<>> THEN [ok |-> TRUE, markets |-> <<>>]
    ELSE IF ~Head(resp).ok THEN [ok |-> FALSE, markets |-> <<>>]
    ELSE LET rest == get_event_markets(Tail(resp))
         IN  IF rest.ok THEN [ok |-> TRUE, markets |-> Head(resp).markets \o rest.markets]
             ELSE rest

\* fetch_all_markets: the dict comprehension fetches every event group before
\* it returns; an exception in any fetch leaves no result at all.
fetch_all_markets(venue) ==
    LET say == get_event_markets(venue.say)
        mention == get_event_markets(venue.mention)
    IN  IF say.ok /\ mention.ok
          THEN [ok |-> TRUE, all_markets |-> [say |-> say.markets, mention |-> mention.markets]]
          ELSE [ok |-> FALSE, all_markets |-> [say |-> <<>>, mention |-> <<>>]]

\* mapping[title.strip()] = ticker, a later market overwriting an earlier one
build_title_to_ticker_map(markets) ==
    LET keys == {strip(markets[i].yes_sub_title) : i \in DOMAIN markets} \ {<<>>}
        last(k) == Max({i \in DOMAIN markets : strip(markets[i].yes_sub_title) = k})
    IN  [k \in keys |-> markets[last(k)].ticker]

parse_market_row(m) ==
    [ticker |-> m.ticker, event_ticker |-> m.event_ticker, title |-> m.yes_sub_title,
     yes_price |-> m.last_price_dollars, status |-> m.status, result |-> m.result]

(* ------------------------ db.py: snapshot store ------------------------ *)
\* Mutant of save_snapshot: a market whose ticker, price, status and result
\* equal those of a stored row is not inserted again.
save_snapshot_Dedup(snaps, markets, now) ==
    LET Fresh(m) == ~\E j \in DOMAIN snaps :
                        /\ snaps[j].ticker = m.ticker
                        /\ snaps[j].yes_price = m.yes_price
                        /\ snaps[j].status = m.status
                        /\ snaps[j].result = m.result
        kept == SelectSeq(markets, Fresh)
    IN  snaps \o [i \in DOMAIN kept |->
                    [ticker |-> kept[i].ticker, event_ticker |-> kept[i].event_ticker,
                     title |-> kept[i].title, yes_price |-> kept[i].yes_price,
                     status |-> kept[i].status, result |-> kept[i].result,
                     snapshot_time |-> now]]

\* save_snapshot: one INSERT per market, all with the same now; the row id is
\* the position in the table.
save_snapshot(snaps, markets, now) ==
    snaps \o [i \in DOMAIN markets |->
                [ticker |-> markets[i].ticker, event_ticker |-> markets[i].event_ticker,
                 title |-> markets[i].title, yes_price |-> markets[i].yes_price,
                 status |-> markets[i].status, result |-> markets[i].result,
                 snapshot_time |-> now]]

\* Mutant of LatestIds: the row of the greatest snapshot_time, the first one
\* among equals.
LatestIds_ByTime(snaps) ==
    {Min({j \in DOMAIN snaps :
            /\ snaps[j].ticker = snaps[i].ticker
            /\ \A k \in DOMAIN snaps :
                  snaps[k].ticker = snaps[i].ticker => snaps[k].snapshot_time <= snaps[j].snapshot_time})
     : i \in DOMAIN snaps}

\* WHERE id IN (SELECT MAX(id) FROM market_snapshots GROUP BY ticker)
LatestIds(snaps) ==
    {Max({j \in DOMAIN snaps : snaps[j].ticker = snaps[i].ticker}) : i \in DOMAIN snaps}

(* -------------------------- db.py: pick ledger ------------------------- *)
\* A spreadsheet cell: blank cells are read as NaN, and str(NaN) is "nan".
Cell(text) == [nan |-> FALSE, text |-> text]
NaN == [nan |-> TRUE, text |-> <<>>]
str(cell) == IF cell.nan THEN <<"nan">> ELSE cell.text
lower(text) == [i \in DOMAIN text |-> IF text[i] \in {"NaN", "NAN", "Nan"} THEN "nan" ELSE text[i]]

\* Column names (already normalised by app.py line 44) and the substring
\* tests the code applies to them; SortedColumns is their sorted() order.
SortedColumns == <<"bonus_pick", "name", "pick_1", "pick_2", "timestamp">>
ContainsPick(c) == c \in {"bonus_pick", "pick_1", "pick_2"}
StartsWithPick(c) == c \in {"pick_1", "pick_2"}
ContainsName(c) == c = "name"
ContainsTime(c) == c = "timestamp"

\* next((c for c in df.columns if test(c)), default)
FirstColumn(columns, Test(_), default) ==
    LET hits == {i \in DOMAIN columns : Test(columns[i])}
    IN  IF hits = {} THEN default ELSE columns[Min(hits)]

\* row.get(col, "") as a string
RowGet(row, col) == IF col \in DOMAIN row THEN str(row[col]) ELSE <<>>

\* title_to_ticker.get(label, {}).get(title, "")
MapGet(ttt, label, title) ==
    IF label \in DOMAIN ttt /\ title \in DOMAIN ttt[label] THEN ttt[label][title] ELSE ""

\* save_picks: the rows inserted for df, in insertion order; ids continue the
\* AUTOINCREMENT sequence seq.
save_picks(df, ttt, seq, now) ==
    LET InCols(c) == \E i \in DOMAIN df.columns : df.columns[i] = c
        IsPickCol(c) == InCols(c) /\ ContainsPick(c)
        pick_cols == SelectSeq(SortedColumns, IsPickCol)
        name_col == FirstColumn(df.columns, ContainsName, "name")
        ts_col == FirstColumn(df.columns, ContainsTime, "timestamp")
        nc == Len(pick_cols)
        cells == [k \in 1..(Len(df.rows) * nc) |->
                    [r |-> ((k - 1) \div nc) + 1, c |-> pick_cols[((k - 1) % nc) + 1]]]
        Accepted(e) ==
            LET row == df.rows[e.r]
                raw_val == strip(str(row[e.c]))
            IN  /\ strip(RowGet(row, name_col)) # <<>>
                /\ raw_val # <<>>
                /\ lower(raw_val) # <<"nan">>
                /\ validate_pick(raw_val).category # "none"
        kept == SelectSeq(cells, Accepted)
    IN  {LET row == df.rows[kept[k].r]
             v == validate_pick(strip(str(row[kept[k].c])))
         IN  [id |-> seq + k,
              timestamp |-> RowGet(row, ts_col),
              name |-> strip(RowGet(row, name_col)),
              pick |-> v.canonical,
              points |-> v.pts,
              market_ticker |-> MapGet(ttt, v.category, v.canonical),
              event_ticker |-> EVENT_TICKERS[v.category],
              locked_at |-> now] : k \in DOMAIN kept}

\* Mutant of backfill_tickers: the SELECT has no WHERE market_ticker = ''.
backfill_tickers_AllRows(pks, ttt) ==
    {LET hits == {k \in DOMAIN Labels :
                    /\ \/ EVENT_TICKERS[Labels[k]] = r.event_ticker
                       \/ r.event_ticker = ""
                    /\ MapGet(ttt, Labels[k], r.pick) # ""}
     IN  IF hits # {}
           THEN [r EXCEPT !.market_ticker = MapGet(ttt, Labels[Min(hits)], r.pick),
                          !.event_ticker = EVENT_TICKERS[Labels[Min(hits)]]]
           ELSE r : r \in pks}

\* Mutant of backfill_tickers: the loop does not compare the label's event
\* with the row's event_ticker.
backfill_tickers_AnyLabel(pks, ttt) ==
    {LET hits == {k \in DOMAIN Labels : MapGet(ttt, Labels[k], r.pick) # ""}
     IN  IF r.market_ticker = "" /\ hits # {}
           THEN [r EXCEPT !.market_ticker = MapGet(ttt, Labels[Min(hits)], r.pick),
                          !.event_ticker = EVENT_TICKERS[Labels[Min(hits)]]]
           ELSE r : r \in pks}

\* backfill_tickers: rows with an empty market_ticker take the ticker of the
\* first label (in EVENT_TICKERS order) whose event matches and whose map
\* knows the pick.
backfill_tickers(pks, ttt) ==
    {LET hits == {k \in DOMAIN Labels :
                    /\ \/ EVENT_TICKERS[Labels[k]] = r.event_ticker
                       \/ r.event_ticker = ""
                    /\ MapGet(ttt, Labels[k], r.pick) # ""}
     IN  IF r.market_ticker = "" /\ hits # {}
           THEN [r EXCEPT !.market_ticker = MapGet(ttt, Labels[Min(hits)], r.pick),
                          !.event_ticker = EVENT_TICKERS[Labels[Min(hits)]]]
           ELSE r : r \in pks}

(* ----------------------- db.py: resolution engine ---------------------- *)
YesThreshold == 990
NoThreshold == 10

\* The LEFT JOIN of picks with the latest snapshot of every ticker: one row
\* per (pick, matching snapshot), and one row with ms = 0 (all NULL) for a
\* pick that matches none.
\* Mutant of JoinOn: the title also joins a pick whose ticker is set.
JoinOn_TitleToo(p, m) ==
    \/ p.market_ticker # "" /\ p.market_ticker = m.ticker
    \/ p.pick = m.title

JoinOn(p, m) ==
    \/ p.market_ticker # "" /\ p.market_ticker = m.ticker
    \/ p.market_ticker = "" /\ p.pick = m.title

JoinRows(pks, snaps) ==
    LET matches(p) == {i \in LatestIds(snaps) : JoinOn(p, snaps[i])}
    IN  UNION {IF matches(p) = {} THEN {[p |-> p, ms |-> 0]}
               ELSE {[p |-> p, ms |-> i] : i \in matches(p)} : p \in pks}

\* Mutant of resolved_yes_expr: the price must exceed the threshold.
resolved_yes_expr_Strict(snaps, i) ==
    /\ i # 0
    /\ \/ snaps[i].result = "yes"
       \/ snaps[i].result = "" /\ snaps[i].yes_price > YesThreshold

\* On the NULL row both comparisons are NULL, which CASE WHEN takes as false.
resolved_yes_expr(snaps, i) ==
    /\ i # 0
    /\ \/ snaps[i].result = "yes"
       \/ snaps[i].result = "" /\ snaps[i].yes_price >= YesThreshold

resolved_no_expr(snaps, i) ==
    /\ i # 0
    /\ \/ snaps[i].result = "no"
       \/ snaps[i].result = "" /\ snaps[i].yes_price <= NoThreshold

RECURSIVE SumVal(_)
SumVal(rows) ==
    IF rows = {} THEN 0
    ELSE LET r == CHOOSE x \in rows : TRUE IN r.val + SumVal(rows \ {r})

\* The SELECT of calculate_scores: one row per p.name.
ScoreQuery(pks, snaps) ==
    LET joined == JoinRows(pks, snaps)
        of(n) == {j \in joined : j.p.name = n}
    IN  {[name |-> n,
          total_points |-> SumVal({[row |-> j,
                                    val |-> IF resolved_yes_expr(snaps, j.ms) THEN j.p.points ELSE 0]
                                   : j \in of(n)}),
          correct_picks |-> SumVal({[row |-> j,
                                     val |-> IF resolved_yes_expr(snaps, j.ms) THEN 1 ELSE 0]
                                    : j \in of(n)}),
          total_picks |-> Cardinality(of(n))] : n \in {p.name : p \in pks}}

\* Mutant of calculate_scores: the upsert adds to the stored totals.
calculate_scores_Accumulate(sc, pks, snaps, now) ==
    LET df == ScoreQuery(pks, snaps)
        old(n, f) == SumVal({[row |-> s, val |-> s[f]] : s \in {x \in sc : x.name = n}})
    IN  {s \in sc : \A d \in df : d.name # s.name} \cup
        {[name |-> d.name, total_points |-> old(d.name, "total_points") + d.total_points,
          correct_picks |-> old(d.name, "correct_picks") + d.correct_picks,
          updated_at |-> now] : d \in df}

\* INSERT ... ON CONFLICT(name) DO UPDATE for every row of the query
calculate_scores(sc, pks, snaps, now) ==
    LET df == ScoreQuery(pks, snaps)
    IN  {s \in sc : \A d \in df : d.name # s.name} \cup
        {[name |-> d.name, total_points |-> d.total_points,
          correct_picks |-> d.correct_picks, updated_at |-> now] : d \in df}

get_leaderboard(sc) == sc

\* get_pick_details: one row per row of the join; id and ms identify it.
get_pick_details(pks, snaps) ==
    {[id |-> j.p.id, ms |-> j.ms, name |-> j.p.name, pick |-> j.p.pick, points |-> j.p.points,
      market_ticker |-> j.p.market_ticker, event_ticker |-> j.p.event_ticker,
      result |-> IF resolved_yes_expr(snaps, j.ms) THEN "yes"
                 ELSE IF resolved_no_expr(snaps, j.ms) THEN "no"
                 ELSE IF j.ms = 0 THEN "" ELSE snaps[j.ms].result,
      status |-> IF j.ms = 0 THEN "" ELSE snaps[j.ms].status,
      yes_price |-> IF j.ms = 0 THEN 0 ELSE snaps[j.ms].yes_price]
     : j \in JoinRows(pks, snaps)}

\* app.py _status_label
status_label(row) ==
    IF row.result = "yes" THEN "YES -- Earned"
    ELSE IF row.result = "no" THEN "NO -- 0 pts"
    ELSE "Pending"

(* ------------------------------ inputs --------------------------------- *)
\* Venue listings. X1 and X2 are two instruments of the "say" event that
\* carry the same title; Y1 is listed with a padded title.
mA == Market("X1", EVENT_TICKERS.say, <<"Trillion">>, 400, "active", "")
mC == Market("X1", EVENT_TICKERS.say, <<"Trillion">>, 1000, "finalized", "yes")
mD == Market("X2", EVENT_TICKERS.say, <<"Trillion">>, 990, "active", "")
mG == Market("Y1", EVENT_TICKERS.mention, <<"Marco / Rubio", "sp">>, 1000, "finalized", "yes")

Page(ms) == [ok |-> TRUE, markets |-> ms]
Fault == [ok |-> FALSE, markets |-> <<>>]

\* What the venue answers to one fetch_all_markets: the pages of each event
\* group. The first fails on the second page of the first group, the second
\* on the second group after the first succeeded.
Venues ==
    {[say |-> <<Page(<<mA>>), Fault>>, mention |-> <<Page(<<>>)>>],
     [say |-> <<Page(<<mA>>)>>, mention |-> <<Fault>>],
     [say |-> <<Page(<<>>)>>, mention |-> <<Page(<<>>)>>],
     [say |-> <<Page(<<mA>>)>>, mention |-> <<Page(<<>>)>>],
     [say |-> <<Page(<<mD>>)>>, mention |-> <<Page(<<>>)>>],
     [say |-> <<Page(<<>>), Page(<<mC>>)>>, mention |-> <<Page(<<>>)>>]}

\* The venue as the ledger runs see it: a failing fetch, an empty venue, and
\* one listing of both event groups.
LedgerVenues ==
    {[say |-> <<Fault>>, mention |-> <<Page(<<>>)>>],
     [say |-> <<Page(<<>>)>>, mention |-> <<Page(<<>>)>>],
     [say |-> <<Page(<<mA>>)>>, mention |-> <<Page(<<mG>>)>>]}

\* Uploaded sheets: the columns and, for every data row, its cells in
\* column order.
NoFile == [present |-> FALSE, columns |-> <<>>, rows |-> <<>>]
Std == <<"timestamp", "name", "pick_1">>
Wide == <<"timestamp", "name", "pick_1", "bonus_pick">>
Sheet(columns, cells) ==
    [present |-> TRUE, columns |-> columns,
     rows |-> [r \in DOMAIN cells |->
                 [c \in {columns[i] : i \in DOMAIN columns} |->
                    cells[r][CHOOSE i \in DOMAIN columns : columns[i] = c]]]]

TS == Cell(<<"t0">>)
Labelled == <<"Trillion", "sp", "dash", "sp", "dig", "sp", "pts">>

ValidSheets ==
    {Sheet(Std, << <<TS, Cell(<<"Alice">>), Cell(Labelled)>> >>),
     Sheet(Std, << <<TS, Cell(<<"sp", "Bob", "sp">>), Cell(<<"Marco Rubio">>)>>,
                   <<TS, Cell(<<"Alice">>), Cell(<<"sp", "Trillion">>)>> >>)}

\* Sheets with a cell that is no option, a blank cell, a blank name, and a
\* second pick column whose name does not start with "pick".
LedgerSheets ==
    ValidSheets \cup
    {Sheet(Std, << <<TS, Cell(<<"Alice">>), Cell(<<"Foo">>)>> >>),
     Sheet(Std, << <<TS, Cell(<<"Alice">>), NaN>> >>),
     Sheet(Std, << <<TS, Cell(<<"sp">>), Cell(<<"Trillion">>)>> >>),
     Sheet(Wide, << <<TS, Cell(<<"Alice">>), Cell(<<"Biden">>), Cell(<<"Foo">>)>> >>),
     Sheet(Wide, << <<TS, NaN, Cell(<<"Trillion">>), NaN>> >>)}

(* ------------------------------ app.py --------------------------------- *)
EmptyMap == [k \in {} |-> ""]

\* The validation loop of the Upload Picks page: the cells that are reported.
ValidationErrors(df) ==
    {e \in (DOMAIN df.rows) \X {df.columns[i] : i \in DOMAIN df.columns} :
        /\ StartsWithPick(e[2])
        /\ validate_pick(strip(str(df.rows[e[1]][e[2]]))).category = "none"}

\* The loop over all_markets.items() shared by _refresh_markets and Finalize
\* Scores: one save_snapshot per event group.
SaveAll(snaps, all_markets, now) ==
    LET parsed(l) == [i \in DOMAIN all_markets[l] |-> parse_market_row(all_markets[l][i])]
    IN  save_snapshot(save_snapshot(snaps, parsed("say"), now), parsed("mention"), now)

MapAll(all_markets) ==
    [l \in {"say", "mention"} |-> build_title_to_ticker_map(all_markets[l])]

\* _ensure_ticker_map
ensure_ticker_map(ttt, venue) ==
    IF DOMAIN ttt # {} THEN ttt
    ELSE LET got == fetch_all_markets(venue)
         IN  IF got.ok THEN MapAll(got.all_markets) ELSE ttt

Init ==
    /\ picks = {}
    /\ picks_seq = 0
    /\ market_snapshots = <<>>
    /\ scores = {}
    /\ title_to_ticker = EmptyMap
    /\ uploaded = NoFile
    /\ notice = ""
    /\ clock = 0

\* Time passes. datetime.now() reads clock: the handlers of one rerun read
\* the same tick.
Tick ==
    /\ clock < MaxTime
    /\ clock' = clock + 1
    /\ UNCHANGED <<picks, picks_seq, market_snapshots, scores, title_to_ticker, uploaded, notice>>

\* A new browser session: session state starts empty, the database stays.
NewSession ==
    /\ title_to_ticker' = EmptyMap
    /\ uploaded' = NoFile
    /\ notice' = ""
    /\ UNCHANGED <<picks, picks_seq, market_snapshots, scores, clock>>

\* A file is chosen in the uploader; the page validates and previews it.
Upload(sheets) ==
    \E sheet \in sheets :
        /\ uploaded' = sheet
        /\ notice' = ""
        /\ UNCHANGED <<picks, picks_seq, market_snapshots, scores, title_to_ticker, clock>>

\* The "Lock In Picks" button, shown only when validation found no error.
LockIn(venues) ==
    /\ uploaded.present
    /\ ValidationErrors(uploaded) = {}
    /\ \E venue \in venues :
        LET ttt == ensure_ticker_map(title_to_ticker, venue)
            rows == save_picks(uploaded, ttt, picks_seq, clock)
        IN  /\ picks_seq + Cardinality(rows) <= MaxPickId
            /\ title_to_ticker' = ttt
            /\ picks' = picks \cup rows
            /\ picks_seq' = picks_seq + Cardinality(rows)
            /\ notice' = ""
    /\ UNCHANGED <<market_snapshots, scores, uploaded, clock>>

\* The "Clear All Picks" button, shown only when picks exist.
ClearAllPicks ==
    /\ picks # {}
    /\ picks' = {}
    /\ notice' = ""
    /\ UNCHANGED <<picks_seq, market_snapshots, scores, title_to_ticker, uploaded, clock>>

\* Market Tracker: "Refresh Now" or the auto-refresh tick.
RefreshMarkets(venues) ==
    \E venue \in venues :
        LET got == fetch_all_markets(venue)
        IN  IF ~got.ok
              THEN /\ notice' = "API error"
                   /\ UNCHANGED <<picks, picks_seq, market_snapshots, scores,
                                  title_to_ticker, uploaded, clock>>
              ELSE /\ market_snapshots' = SaveAll(market_snapshots, got.all_markets, clock)
                   /\ Len(market_snapshots') <= MaxSnapshots
                   /\ title_to_ticker' = MapAll(got.all_markets)
                   /\ notice' = ""
                   /\ UNCHANGED <<picks, picks_seq, scores, uploaded, clock>>

\* Mutant of FinalizeScores: every event group is saved right after its own
\* fetch, so a fault in the second group comes after the first was saved.
FinalizeScores_Eager(venues) ==
    \E venue \in venues :
        LET say == get_event_markets(venue.say)
            got == fetch_all_markets(venue)
        IN  IF ~got.ok
              THEN /\ notice' = "Error"
                   /\ market_snapshots' =
                        SaveAll(market_snapshots, [say |-> say.markets, mention |-> <<>>], clock)
                   /\ Len(market_snapshots') <= MaxSnapshots
                   /\ UNCHANGED <<picks, picks_seq, scores, title_to_ticker, uploaded, clock>>
              ELSE /\ market_snapshots' = SaveAll(market_snapshots, got.all_markets, clock)
                   /\ Len(market_snapshots') <= MaxSnapshots
                   /\ title_to_ticker' = MapAll(got.all_markets)
                   /\ picks' = backfill_tickers(picks, title_to_ticker')
                   /\ scores' = calculate_scores(scores, picks', market_snapshots', clock)
                   /\ notice' = ""
                   /\ UNCHANGED <<picks_seq, uploaded, clock>>

\* Leaderboard: the "Finalize Scores" button.
FinalizeScores(venues) ==
    \E venue \in venues :
        LET got == fetch_all_markets(venue)
        IN  IF ~got.ok
              THEN /\ notice' = "Error"
                   /\ UNCHANGED <<picks, picks_seq, market_snapshots, scores,
                                  title_to_ticker, uploaded, clock>>
              ELSE /\ market_snapshots' = SaveAll(market_snapshots, got.all_markets, clock)
                   /\ Len(market_snapshots') <= MaxSnapshots
                   /\ title_to_ticker' = MapAll(got.all_markets)
                   /\ picks' = backfill_tickers(picks, title_to_ticker')
                   /\ scores' = calculate_scores(scores, picks', market_snapshots', clock)
                   /\ notice' = ""
                   /\ UNCHANGED <<picks_seq, uploaded, clock>>

Next ==
    \/ Tick
    \/ NewSession
    \/ Upload(ValidSheets)
    \/ LockIn(Venues)
    \/ ClearAllPicks
    \/ RefreshMarkets(Venues)
    \/ FinalizeScores(Venues)

Spec == Init /\ [][Next]_vars

\* The same handlers over the ledger's inputs.
NextLedger ==
    \/ Tick
    \/ NewSession
    \/ Upload(LedgerSheets)
    \/ LockIn(LedgerVenues)
    \/ ClearAllPicks
    \/ RefreshMarkets(LedgerVenues)
    \/ FinalizeScores(LedgerVenues)

SpecLedger == Init /\ [][NextLedger]_vars

\* The venue as the backfill runs see it: a failing fetch, an empty venue,
\* the option listed under its own event group, the option's title listed
\* under the other event group only, and under both.
mH == Market("Y9", EVENT_TICKERS.mention, <<"Trillion">>, 400, "active", "")

BackfillVenues ==
    {[say |-> <<Fault>>, mention |-> <<Page(<<>>)>>],
     [say |-> <<Page(<<>>)>>, mention |-> <<Page(<<>>)>>],
     [say |-> <<Page(<<mA>>)>>, mention |-> <<Page(<<>>)>>],
     [say |-> <<Page(<<>>)>>, mention |-> <<Page(<<mH>>)>>],
     [say |-> <<Page(<<mA>>)>>, mention |-> <<Page(<<mH>>)>>]}

\* The title maps a session can hold: none, and the map of every listing.
BackfillMaps ==
    {EmptyMap} \cup
    {MapAll(fetch_all_markets(v).all_markets) : v \in {w \in BackfillVenues : fetch_all_markets(w).ok}}

NextBackfill ==
    \/ Tick
    \/ NewSession
    \/ Upload(ValidSheets)
    \/ LockIn(BackfillVenues)
    \/ ClearAllPicks
    \/ RefreshMarkets(BackfillVenues)
    \/ FinalizeScores(BackfillVenues)

SpecBackfill == Init /\ [][NextBackfill]_vars

\* The venue as the snapshot runs see it: a failing fetch, one market, two
\* markets in one event group, and a market on the second page.
SnapshotVenues ==
    {[say |-> <<Page(<<mA>>)>>, mention |-> <<Fault>>],
     [say |-> <<Page(<<mA>>)>>, mention |-> <<Page(<<>>)>>],
     [say |-> <<Page(<<mA, mD>>)>>, mention |-> <<Page(<<>>)>>],
     [say |-> <<Page(<<>>), Page(<<mC>>)>>, mention |-> <<Page(<<>>)>>]}

\* The lists a caller can hand to save_snapshot: up to two parsed markets.
SnapshotBatches ==
    LET rows == {parse_market_row(m) : m \in {mA, mC, mD}}
    IN  {<<>>} \cup {<<r>> : r \in rows} \cup {<<r1, r2>> : r1 \in rows, r2 \in rows}

NextSnapshots ==
    \/ Tick
    \/ NewSession
    \/ Upload(ValidSheets)
    \/ LockIn(SnapshotVenues)
    \/ ClearAllPicks
    \/ RefreshMarkets(SnapshotVenues)
    \/ FinalizeScores(SnapshotVenues)

SpecSnapshots == Init /\ [][NextSnapshots]_vars

\* Resolution of one locked pick against one snapshot of every result and
\* price: the pick is locked from the first sheet, with the ticker of its
\* instrument or (before any listing was fetched) without one; the venue
\* then lists nothing new.
Results == {"", "yes", "no"}

QuietVenues == {[say |-> <<Page(<<>>)>>, mention |-> <<Page(<<>>)>>]}

InitClassify ==
    /\ \E ttt \in {EmptyMap, MapAll([say |-> <<mA>>, mention |-> <<>>])} :
          picks = save_picks(Sheet(Std, << <<TS, Cell(<<"Alice">>), Cell(Labelled)>> >>), ttt, 0, 0)
    /\ picks_seq = 1
    /\ \/ market_snapshots = <<>>
       \/ \E r \in Results, y \in 0..MaxPrice :
             market_snapshots =
               save_snapshot(<<>>, <<parse_market_row(
                   Market("X1", EVENT_TICKERS.say, <<"Trillion">>, y, "active", r))>>, 0)
    /\ scores = {}
    /\ title_to_ticker = EmptyMap
    /\ uploaded = NoFile
    /\ notice = ""
    /\ clock = 0

NextClassify == FinalizeScores(QuietVenues)

SpecClassify == InitClassify /\ [][NextClassify]_vars

(* ------------------------------ claims --------------------------------- *)
ScoreView(sc) ==
    {[name |-> s.name, total_points |-> s.total_points, correct_picks |-> s.correct_picks]
     : s \in sc}

\* C1: resolve() is idempotent. In every reachable state, running
\* calculate_scores and then running it again on the same picks and
\* snapshots leaves the same score records as the first run did (updated_at
\* aside): the same participants, total_points and correct_picks, and no
\* more rows.
C1_ResolveIdempotent ==
    \A t1 \in clock..MaxTime : \A t2 \in t1..MaxTime :
        LET once == calculate_scores(scores, picks, market_snapshots, t1)
            twice == calculate_scores(once, picks, market_snapshots, t2)
        IN  /\ ScoreView(twice) = ScoreView(once)
            /\ Cardinality(twice) = Cardinality(once)

\* A resolve has written a participant's points, and a second one is due on
\* unchanged picks and snapshots.
C1_Witness ==
    /\ \E s \in scores : s.total_points > 0
    /\ \E d \in ScoreQuery(picks, market_snapshots) : d.total_points > 0
    /\ ScoreView(scores) = ScoreView(calculate_scores(scores, picks, market_snapshots, clock))

\* The latest snapshot of the pick's own instrument, 0 when there is none.
OwnSnapshot(p) ==
    LET own == {i \in DOMAIN market_snapshots : market_snapshots[i].ticker = p.market_ticker}
    IN  IF own = {} THEN 0 ELSE Max(own)

OwnWon(p) ==
    LET i == OwnSnapshot(p)
    IN  /\ i # 0
        /\ \/ market_snapshots[i].result = "yes"
           \/ market_snapshots[i].result = "" /\ market_snapshots[i].yes_price >= 990

OwnLost(p) ==
    LET i == OwnSnapshot(p)
    IN  /\ i # 0
        /\ \/ market_snapshots[i].result = "no"
           \/ market_snapshots[i].result = "" /\ market_snapshots[i].yes_price <= 10

OwnLabel(p) ==
    IF OwnWon(p) THEN "YES -- Earned" ELSE IF OwnLost(p) THEN "NO -- 0 pts" ELSE "Pending"

RECURSIVE OwnPoints(_)
OwnPoints(pks) ==
    IF pks = {} THEN 0
    ELSE LET p == CHOOSE x \in pks : TRUE
         IN  (IF OwnWon(p) THEN p.points ELSE 0) + OwnPoints(pks \ {p})

\* C2: a pick whose market_ticker is set is resolved by the latest snapshot
\* of that ticker alone. get_pick_details has exactly one row for it, joined
\* to that snapshot (to none when the ticker has no snapshot, and the pick
\* is then Pending), whatever the titles of other instruments are; and a
\* participant all of whose picks have a ticker is scored by calculate_scores
\* with the points of the picks their own instruments made WON.
C2_JoinOnInstrumentOnly ==
    /\ \A p \in picks : p.market_ticker # "" =>
          LET rows == {d \in get_pick_details(picks, market_snapshots) : d.id = p.id}
          IN  /\ Cardinality(rows) = 1
              /\ \A d \in rows : d.ms = OwnSnapshot(p) /\ status_label(d) = OwnLabel(p)
    /\ \A d \in ScoreQuery(picks, market_snapshots) :
          LET mine == {p \in picks : p.name = d.name}
          IN  (\A p \in mine : p.market_ticker # "") =>
                  /\ d.total_points = OwnPoints(mine)
                  /\ d.correct_picks = Cardinality({p \in mine : OwnWon(p)})

\* A pick with a ticker that has no snapshot, while the latest snapshot of
\* another instrument carries the pick's title and has resolved yes.
C2_Witness ==
    \E p \in picks :
        /\ p.market_ticker # ""
        /\ OwnSnapshot(p) = 0
        /\ \E i \in LatestIds(market_snapshots) :
              /\ market_snapshots[i].title = p.pick
              /\ resolved_yes_expr(market_snapshots, i)
        /\ \E s \in scores : s.name = p.name /\ s.total_points = 0

\* C6: the latest-per-instrument view holds exactly one row for every
\* ticker that was ever saved, and that row is the one with the greatest id
\* among the ticker's rows.
C6_LatestPerInstrument ==
    LET view == LatestIds(market_snapshots)
        all == DOMAIN market_snapshots
    IN  /\ view \subseteq all
        /\ \A j \in all :
              /\ Cardinality({i \in view : market_snapshots[i].ticker = market_snapshots[j].ticker}) = 1
              /\ \A i \in view :
                    market_snapshots[i].ticker = market_snapshots[j].ticker => j <= i

\* One instrument saved twice, at 0.40 and then at a higher price: the view
\* holds the second row only.
C6_Witness ==
    /\ Len(market_snapshots) = 2
    /\ market_snapshots[1].ticker = market_snapshots[2].ticker
    /\ market_snapshots[1].yes_price = 400
    /\ market_snapshots[2].yes_price > 400
    /\ LatestIds(market_snapshots) = {2}

\* C3: a pick matched to a latest snapshot is WON iff the result is "yes" or
\* the result is empty and the price is at least 0.99, LOST iff the result
\* is "no" or the result is empty and the price is at most 0.01, and PENDING
\* otherwise, also when no snapshot matches; 0.99 is WON, 0.989 PENDING,
\* 0.01 LOST and 0.011 PENDING; it is never both; and the score written for
\* the participant holds the pick's points exactly when it is WON.
C3_Classification ==
    \A d \in get_pick_details(picks, market_snapshots) :
        LET found == d.ms # 0
            r == IF found THEN market_snapshots[d.ms].result ELSE ""
            y == IF found THEN market_snapshots[d.ms].yes_price ELSE 0
            won == status_label(d) = "YES -- Earned"
            lost == status_label(d) = "NO -- 0 pts"
            pending == status_label(d) = "Pending"
        IN  /\ found = (market_snapshots # <<>>)
            /\ won <=> (found /\ (r = "yes" \/ (r = "" /\ y >= 990)))
            /\ lost <=> (found /\ (r = "no" \/ (r = "" /\ y <= 10)))
            /\ pending <=> ~(won \/ lost)
            /\ (found /\ r = "" /\ y = 990) => won
            /\ (found /\ r = "" /\ y = 989) => pending
            /\ (found /\ r = "" /\ y = 10) => lost
            /\ (found /\ r = "" /\ y = 11) => pending
            /\ ~(resolved_yes_expr(market_snapshots, d.ms) /\ resolved_no_expr(market_snapshots, d.ms))
            /\ \A s \in scores :
                  /\ s.total_points = (IF won THEN d.points ELSE 0)
                  /\ s.correct_picks = (IF won THEN 1 ELSE 0)

\* The pick is scored as WON on a snapshot with no result at exactly 0.99.
C3_Witness ==
    /\ Len(market_snapshots) = 1
    /\ market_snapshots[1].result = ""
    /\ market_snapshots[1].yes_price = 990
    /\ \E s \in scores : s.total_points = 7 /\ s.correct_picks = 1

\* A pick is WON when a latest snapshot joined to it has resolved yes.
WonPick(p) ==
    \E j \in JoinRows(picks, market_snapshots) :
        j.p = p /\ resolved_yes_expr(market_snapshots, j.ms)

RECURSIVE WonPoints(_)
WonPoints(pks) ==
    IF pks = {} THEN 0
    ELSE LET p == CHOOSE x \in pks : TRUE
         IN  (IF WonPick(p) THEN p.points ELSE 0) + WonPoints(pks \ {p})

AggregatesRight ==
    \A n \in {p.name : p \in picks} :
        LET mine == {p \in picks : p.name = n}
            recs == {s \in scores : s.name = n}
        IN  /\ Cardinality(recs) = 1
            /\ \A s \in recs :
                  /\ s.total_points = WonPoints(mine)
                  /\ s.correct_picks = Cardinality({p \in mine : WonPick(p)})
                  /\ s.correct_picks <= Cardinality(mine)

\* A run of Finalize Scores that met no fault.
Finalized == FinalizeScores(Venues) /\ notice' = ""

\* C4: after a resolve, every participant with a pick has exactly one score
\* record, whose total_points is the sum of the points of the participant's
\* WON picks and whose correct_picks is their number, each pick counted at
\* most once, also when a pick without a ticker is joined by title to the
\* latest snapshots of several instruments.
C4_EachPickCountedOnce == [][Finalized => AggregatesRight']_vars

\* C5: a resolve that runs when all picks have been cleared leaves no score
\* record of a participant without picks in the table get_leaderboard reads.
C5_NoStaleScores ==
    [][(picks = {} /\ Finalized) =>
         \A s \in get_leaderboard(scores') : \E p \in picks' : p.name = s.name]_vars

\* C8: a rerun of refresh or finalize that reports a fetch failure leaves
\* the picks, the snapshots and the scores as they were.
C8_FaultLeavesTablesUntouched ==
    [][notice' \in {"API error", "Error"} =>
         UNCHANGED <<picks, picks_seq, market_snapshots, scores>>]_vars

\* Finalize Scores has failed on a fetch with all three tables populated.
C8_Witness ==
    /\ notice = "Error"
    /\ picks # {}
    /\ market_snapshots # <<>>
    /\ scores # {}

\* C10: in every step, a pick row that stays keeps its name, pick, points,
\* timestamp and locked_at, and keeps its market_ticker and event_ticker
\* once the market_ticker is set; a row goes away only in Clear All Picks.
C10_PickImmutable ==
    [][\A p \in picks :
         IF \E q \in picks' : q.id = p.id
           THEN \A q \in picks' : q.id = p.id =>
                  /\ q.name = p.name /\ q.pick = p.pick /\ q.points = p.points
                  /\ q.timestamp = p.timestamp /\ q.locked_at = p.locked_at
                  /\ p.market_ticker # "" =>
                       q.market_ticker = p.market_ticker /\ q.event_ticker = p.event_ticker
           ELSE ClearAllPicks]_vars

\* A pick keeps the ticker X1 after the venue listed its option under X2 and
\* scores were computed at a later time than the lock.
C10_Witness ==
    \E p \in picks :
        /\ p.market_ticker = "X1"
        /\ MapGet(title_to_ticker, "say", p.pick) = "X2"
        /\ \E s \in scores : s.name = p.name /\ s.updated_at > p.locked_at

\* C7: every stored pick has a non-empty, trimmed name, a pick that is a key
\* of the points tables, the points of that key, and the event ticker of
\* the key's category; blank, placeholder and unknown cells left no row.
C7_LedgerValid ==
    \A p \in picks :
        /\ p.name # <<>>
        /\ strip(p.name) = p.name
        /\ \/ /\ p.pick \in DOMAIN SAY_POINTS
              /\ p.points = SAY_POINTS[p.pick]
              /\ p.event_ticker = EVENT_TICKERS.say
           \/ /\ p.pick \in DOMAIN MENTION_POINTS
              /\ p.points = MENTION_POINTS[p.pick]
              /\ p.event_ticker = EVENT_TICKERS.mention

\* Rows from a labelled cell and from an alias are stored while a sheet with
\* an unknown cell and a blank cell is in the uploader.
C7_Witness ==
    /\ \E p \in picks : p.pick = <<"Marco / Rubio">> /\ p.name = <<"Bob">> /\ p.points = 31
    /\ \E p \in picks : p.pick = <<"Trillion">> /\ p.points = 7
    /\ uploaded.present /\ uploaded.columns = Wide

\* A cell of a pick column that holds text which is no option.
HasInvalidPickCell(df) ==
    \E r \in DOMAIN df.rows : \E i \in DOMAIN df.columns :
        LET raw_val == strip(str(df.rows[r][df.columns[i]]))
        IN  /\ ContainsPick(df.columns[i])
            /\ raw_val # <<>>
            /\ lower(raw_val) # <<"nan">>
            /\ validate_pick(raw_val).category = "none"

\* C9: while the uploaded batch has a pick cell that is no option, no pick
\* is inserted: an invalid batch is never stored, not even in part.
C9_AllOrNothing ==
    [][HasInvalidPickCell(uploaded) => {q.id : q \in picks'} \subseteq {p.id : p \in picks}]_vars

\* The rows backfill_tickers is expected to leave for the map M: a row with
\* an empty market_ticker takes M[category of its pick][pick], "" when the
\* map has no such entry; nothing else changes.
BackfillExpected(pks, M) ==
    {IF p.market_ticker = ""
       THEN [p EXCEPT !.market_ticker = MapGet(M, validate_pick(p.pick).category, p.pick)]
       ELSE p : p \in pks}

\* C11: backfill_tickers is safe to repeat. For every reachable ledger and
\* every title map M, one call gives each pick with an empty market_ticker
\* the ticker M holds for the pick in the map of the pick's own category,
\* leaves it empty when that map has no entry (also when the other
\* category's map has one), and changes nothing else; a second call with
\* the same M changes no row; and a Finalize Scores that met no fault
\* leaves the picks so backfilled with the session's new map.
C11_BackfillRepeatSafe ==
    /\ [](\A M \in BackfillMaps :
            LET once == backfill_tickers(picks, M)
            IN  /\ once = BackfillExpected(picks, M)
                /\ backfill_tickers(once, M) = once)
    /\ [][(FinalizeScores(BackfillVenues) /\ notice' = "") =>
            /\ picks' = BackfillExpected(picks, title_to_ticker')
            /\ backfill_tickers(picks', title_to_ticker') = picks']_vars

\* A pick of the "say" category still has no ticker after a Finalize Scores
\* later than its lock, the session's map lists its title under the
\* "mention" group only, and another listing would fill it.
C11_Witness ==
    \E p \in picks :
        /\ p.market_ticker = ""
        /\ p.event_ticker = EVENT_TICKERS.say
        /\ MapGet(title_to_ticker, "mention", p.pick) = "Y9"
        /\ MapGet(title_to_ticker, "say", p.pick) = ""
        /\ backfill_tickers(picks, title_to_ticker) = picks
        /\ \E s \in scores : s.name = p.name /\ s.updated_at > p.locked_at
        /\ \E M \in BackfillMaps :
              \E q \in backfill_tickers(picks, M) : q.id = p.id /\ q.market_ticker = "X1"

\* snaps is kept as the first rows of after, ids and fields alike.
KeepsRows(snaps, after) ==
    /\ Len(after) >= Len(snaps)
    /\ SubSeq(after, 1, Len(snaps)) = snaps

\* C12: the snapshot store is append-only. In every reachable state a
\* save_snapshot of n observations adds exactly n rows, also when they equal
\* rows already stored; the new rows carry the observations in order, one
\* shared snapshot_time, and ids above every existing id; and no step of any
\* handler (refresh, lock in, backfill, clear, resolve) removes or alters a
\* stored snapshot row, rows being added only by a refresh or finalize that
\* met no fault.
C12_SnapshotsAppendOnly ==
    /\ [](\A b \in SnapshotBatches :
            LET after == save_snapshot(market_snapshots, b, clock)
                n0 == Len(market_snapshots)
            IN  /\ Len(after) = n0 + Len(b)
                /\ KeepsRows(market_snapshots, after)
                /\ \A i \in DOMAIN b :
                      /\ after[n0 + i].snapshot_time = clock
                      /\ after[n0 + i].ticker = b[i].ticker
                      /\ after[n0 + i].title = b[i].title
                      /\ after[n0 + i].yes_price = b[i].yes_price
                      /\ after[n0 + i].result = b[i].result
                      /\ \A j \in DOMAIN market_snapshots : j < n0 + i)
    /\ [][/\ KeepsRows(market_snapshots, market_snapshots')
           /\ market_snapshots' # market_snapshots =>
                 /\ notice' = ""
                 /\ \E v \in SnapshotVenues :
                       /\ fetch_all_markets(v).ok
                       /\ Len(market_snapshots') = Len(market_snapshots)
                            + Len(fetch_all_markets(v).all_markets.say)
                            + Len(fetch_all_markets(v).all_markets.mention)]_vars

\* The same observation was saved by two refreshes within one tick: the
\* store holds it twice, as rows 1 and 2.
C12_Witness ==
    /\ Len(market_snapshots) = 2
    /\ market_snapshots[1] = market_snapshots[2]
    /\ market_snapshots[1].ticker = "X1"

====
